---- MODULE Spec2Model ----
(***************************************************************************)
(* makesksa: assembly of an SKSA image (src/src/lib.rs build) from the     *)
(* command line accepted by src/src/args.rs (Cli, Args::try_from).         *)
(*                                                                         *)
(* Byte vectors (Vec<u8>) are kept run-length encoded: a vector is a       *)
(* sequence of segments [t, n], the first n bytes of the byte stream t.    *)
(* A stream is a repeated byte, or the output of one of the external       *)
(* primitives (AES-CBC, DEFLATE, the CMD header encoder, the embedded      *)
(* certcrl.bin), which stay uninterpreted.  Lengths are usize values; they *)
(* are kept as two base-65536 limbs because the 32-bit boundary of the     *)
(* header length field lies beyond the integers of the model checker.      *)
(***************************************************************************)
EXTENDS Integers, Sequences, FiniteSets, TLC

VARIABLES
    argv,      \* the command line of the process
    pc,        \* position of main / build
    args,      \* Option<Args>: the result of parse_args
    result,    \* how the process ended, once it has
    io,        \* the I/O operations performed so far, in order
    steps,     \* the steps of main and build completed so far, in order
    raw,       \* the bytes each component source returned when read, and
               \* the compressed SA2 before it is padded
    keys,      \* boot_app_key and (sk_key, sk_iv), once derived
    sk,        \* build's local sk
    sa1,       \* build's local sa1
    sa2,       \* build's local sa2: Option<Vec<u8>>
    sa1_cmd,   \* build's local sa1_cmd
    sa2_cmd,   \* build's local sa2_cmd: Option<Vec<u8>>
    certs,     \* DUMMY_CERTS_CRLS, once it has been looked at
    outfile,   \* build's local outfile
    dest       \* what the output destination holds, once written

vars == <<argv, pc, args, result, io, steps, raw, keys, sk, sa1, sa2,
          sa1_cmd, sa2_cmd, certs, outfile, dest>>

\* ---------------------------------------------------------------- bounds
\* Payload lengths are drawn within MaxDelta of each boundary of the code.
MaxDelta == 1
\* At most MaxOpts of the six --sa?-key/iv/key-iv options are on a command line.
MaxOpts == 1

\* ------------------------------------------------------- usize arithmetic
\* one limb of a usize value
Limb == 256 * 256

Big(h, l) == [hi |-> h, lo |-> l]

BigOf(n) == Big(n \div Limb, n % Limb)

BigAdd(a, b) == Big(a.hi + b.hi + ((a.lo + b.lo) \div Limb), (a.lo + b.lo) % Limb)

\* a - b for a >= b
BigSub(a, b) ==
    IF a.lo >= b.lo THEN Big(a.hi - b.hi, a.lo - b.lo)
    ELSE Big(a.hi - b.hi - 1, a.lo + Limb - b.lo)

BigLt(a, b) == a.hi < b.hi \/ (a.hi = b.hi /\ a.lo < b.lo)

BigLe(a, b) == ~BigLt(b, a)

\* a % m for a small modulus m
BigMod(a, m) == (((a.hi % m) * (Limb % m)) + (a.lo % m)) % m

\* usize::next_multiple_of
NextMultipleOfAlways(a, m) == BigAdd(a, BigOf(m - BigMod(a, m)))

NextMultipleOf(a, m) ==
    IF BigMod(a, m) = 0 THEN a ELSE BigAdd(a, BigOf(m - BigMod(a, m)))

\* `len as u32`: the low 32 bits
AsU32(a) == Big(a.hi % Limb, a.lo)

Zero == BigOf(0)

\* ------------------------------------------------------ program constants
SK_SIZE == BigOf(64 * 1024)

\* bb::BLOCK_SIZE, the 16 KiB block of the SKSA layout
BLOCK_SIZE == 16384

U32_MAX == Big(65535, 65535)

KeyLen == 16

BLANK_KEY == [i \in 1..KeyLen |-> 0]

BLANK_IV == [i \in 1..KeyLen |-> 0]

\* ------------------------------------------------------------ Vec<u8>
ByteStream(b) == [k |-> "byte", b |-> b]

\* vec![b; n]
Fill(b, n) == IF n = Zero THEN <<>> ELSE <<[t |-> ByteStream(b), n |-> n]>>

RECURSIVE VLen(_)
VLen(v) == IF v = <<>> THEN Zero ELSE BigAdd(v[1].n, VLen(Tail(v)))

\* Vec::extend; adjacent runs of one byte are kept merged
Extend(v, w) ==
    IF w = <<>> THEN v
    ELSE IF v = <<>> THEN w
    ELSE IF v[Len(v)].t = w[1].t /\ w[1].t.k = "byte"
         THEN SubSeq(v, 1, Len(v) - 1)
              \o <<[t |-> w[1].t, n |-> BigAdd(v[Len(v)].n, w[1].n)]>>
              \o Tail(w)
         ELSE v \o w

\* Vec::truncate: the first n bytes (v itself when n >= len)
RECURSIVE Truncate(_, _)
Truncate(v, n) ==
    IF v = <<>> \/ n = Zero THEN <<>>
    ELSE IF BigLe(v[1].n, n)
         THEN <<v[1]>> \o Truncate(Tail(v), BigSub(n, v[1].n))
         ELSE <<[t |-> v[1].t, n |-> n]>>

\* Vec::resize
Resize(v, n, b) ==
    IF BigLt(VLen(v), n) THEN Extend(v, Fill(b, BigSub(n, VLen(v))))
    ELSE Truncate(v, n)

\* the segments of v from byte offset n on (how far each segment lies into
\* its stream is not kept: used only to look at padding)
RECURSIVE SkipBytes(_, _)
SkipBytes(v, n) ==
    IF v = <<>> THEN <<>>
    ELSE IF n = Zero THEN v
    ELSE IF BigLe(v[1].n, n) THEN SkipBytes(Tail(v), BigSub(n, v[1].n))
    ELSE <<[t |-> v[1].t, n |-> BigSub(v[1].n, n)]>> \o Tail(v)

IsPrefix(p, v) == BigLe(VLen(p), VLen(v)) /\ Truncate(v, VLen(p)) = p

AllZero(v) == \A i \in 1..Len(v) : v[i].t = ByteStream(0)

\* ------------------------------------------------------------- Option<T>
None == [some |-> FALSE]

Some(x) == [some |-> TRUE, v |-> x]

\* ------------------------------------------------------ text conversions
LowerDigits == <<"0", "1", "2", "3", "4", "5", "6", "7", "8", "9",
                 "a", "b", "c", "d", "e", "f">>

UpperDigits == <<"0", "1", "2", "3", "4", "5", "6", "7", "8", "9",
                 "A", "B", "C", "D", "E", "F">>

\* char::to_digit(radix): the digit's value, or -1
DigitVal(c, radix) ==
    IF \E i \in 1..radix : LowerDigits[i] = c \/ UpperDigits[i] = c
    THEN (CHOOSE i \in 1..radix : LowerDigits[i] = c \/ UpperDigits[i] = c) - 1
    ELSE -1

\* u32::from_str_radix: one leading "+" is taken as a sign, then digits
\* only; None on an empty text, a sign alone, a foreign character (a "-"
\* or a second sign among them) or a value above u32::MAX
FromStrRadix(s, radix) ==
    LET RECURSIVE Digits(_, _)
        Digits(d, acc) ==
            IF d = <<>> THEN Some(acc)
            ELSE IF DigitVal(d[1], radix) < 0 THEN None
            ELSE LET low  == (acc.lo * radix) + DigitVal(d[1], radix)
                     next == Big((acc.hi * radix) + (low \div Limb), low % Limb)
                 IN IF next.hi >= Limb THEN None ELSE Digits(Tail(d), next)
    IN IF s = <<>> THEN None
       ELSE IF s[1] = "+"
            THEN (IF Len(s) = 1 THEN None ELSE Digits(Tail(s), Zero))
            ELSE Digits(s, Zero)

\* clap_num::maybe_hex::<u32>, the value parser of both CID arguments
MaybeHex(s) ==
    IF Len(s) >= 2 /\ s[1] = "0" /\ s[2] \in {"x", "X"}
    THEN FromStrRadix(SubSeq(s, 3, Len(s)), 16)
    ELSE FromStrRadix(s, 10)

\* <[u8; 16]>::from_hex
FromHex(s) ==
    IF Len(s) % 2 # 0 THEN [ok |-> FALSE, err |-> "OddLength"]
    ELSE IF Len(s) \div 2 # KeyLen THEN [ok |-> FALSE, err |-> "InvalidStringLength"]
    ELSE IF \E i \in 1..Len(s) : DigitVal(s[i], 16) < 0
         THEN [ok |-> FALSE, err |-> "InvalidHexCharacter"]
         ELSE [ok |-> TRUE,
               v |-> [i \in 1..KeyLen |->
                        (16 * DigitVal(s[(2 * i) - 1], 16)) + DigitVal(s[2 * i], 16)]]

\* ------------------------------------------------------------- IOType
Stdin == [k |-> "Stdin", path |-> ""]

Stdout == [k |-> "Stdout", path |-> ""]

File(p) == [k |-> "File", path |-> p]

IOInput(path) == IF path = "-" THEN Stdin ELSE File(path)

IOOutput(path) == IF path = "-" THEN Stdout ELSE File(path)

\* impl Display for IOType
Display(src) ==
    IF src.k = "Stdin" THEN "stdin"
    ELSE IF src.k = "Stdout" THEN "stdout"
    ELSE src.path

\* ------------------------------------------------------------ struct Cli
\* A command line: its positional words in order, and for each option the
\* text given with it.
OptNames == {"sa1_key", "sa1_iv", "sa1_key_iv", "sa2_key", "sa2_iv", "sa2_key_iv"}

Given(av, o) == av.opts[o].some

\* Cli::parse(): positional words fill virage2, bootrom, sk, sa1, sa1_cid,
\* sa2, sa2_cid, outfile in that order; then the `requires` rules.
ClapRequiresLax(av) ==
    /\ (Given(av, "sa2_key") => Len(av.pos) >= 6)
    /\ (Given(av, "sa2_iv") => Len(av.pos) >= 6)

ClapRequires(av) ==
    /\ (Len(av.pos) >= 6 => Len(av.pos) >= 7)
    /\ (Given(av, "sa2_key") => Len(av.pos) >= 6)
    /\ (Given(av, "sa2_iv") => Len(av.pos) >= 6)

ClapParse(av) ==
    LET n == Len(av.pos) IN
    IF n >= 5 /\ ~MaybeHex(av.pos[5]).some
        THEN [ok |-> FALSE, err |-> "ValueValidation"]
    ELSE IF n >= 7 /\ ~MaybeHex(av.pos[7]).some
        THEN [ok |-> FALSE, err |-> "ValueValidation"]
    ELSE IF n > 8
        THEN [ok |-> FALSE, err |-> "UnknownArgument"]
    ELSE IF n < 5 \/ ~ClapRequires(av)
        THEN [ok |-> FALSE, err |-> "MissingRequiredArgument"]
    ELSE [ok |-> TRUE,
          cli |-> [virage2    |-> av.pos[1],
                   bootrom    |-> av.pos[2],
                   sk         |-> av.pos[3],
                   sa1        |-> av.pos[4],
                   sa1_cid    |-> MaybeHex(av.pos[5]).v,
                   sa1_key    |-> av.opts["sa1_key"],
                   sa1_iv     |-> av.opts["sa1_iv"],
                   sa1_key_iv |-> av.opts["sa1_key_iv"],
                   sa2        |-> IF n >= 6 THEN Some(av.pos[6]) ELSE None,
                   sa2_cid    |-> IF n >= 7 THEN Some(MaybeHex(av.pos[7]).v) ELSE None,
                   sa2_key    |-> av.opts["sa2_key"],
                   sa2_iv     |-> av.opts["sa2_iv"],
                   sa2_key_iv |-> av.opts["sa2_key_iv"],
                   outfile    |-> IF n >= 8 THEN av.pos[8] ELSE "out.sksa"]]

\* ------------------------------------------------------ Args::try_from
\* value.x.map(<_>::from_hex).transpose()
HexOpt(o) ==
    IF ~o.some THEN [ok |-> TRUE, v |-> None]
    ELSE IF FromHex(o.v).ok THEN [ok |-> TRUE, v |-> Some(FromHex(o.v).v)]
    ELSE [ok |-> FALSE, err |-> FromHex(o.v).err]

UnwrapOr(o, d) == IF o.some THEN o.v ELSE d

\* the `if sa2.is_some()` block: an absent key or IV becomes the blank one
Sa2DefaultKeep(s2, o, blank) == o

Sa2Default(s2, o, blank) == IF s2.some /\ ~o.some THEN Some(blank) ELSE o

HexFields == <<"sa1_key", "sa1_iv", "sa1_key_iv", "sa2_key", "sa2_iv", "sa2_key_iv">>

TryFrom(cli) ==
    IF \E i \in 1..Len(HexFields) : ~HexOpt(cli[HexFields[i]]).ok
    THEN [ok |-> FALSE,
          err |-> HexOpt(cli[HexFields[
                     CHOOSE i \in 1..Len(HexFields) :
                        /\ ~HexOpt(cli[HexFields[i]]).ok
                        /\ \A j \in 1..(i - 1) : HexOpt(cli[HexFields[j]]).ok]]).err]
    ELSE LET s2 == IF cli.sa2.some THEN Some(IOInput(cli.sa2.v)) ELSE None IN
         [ok |-> TRUE,
          args |-> [virage2    |-> IOInput(cli.virage2),
                    bootrom    |-> IOInput(cli.bootrom),
                    sk         |-> IOInput(cli.sk),
                    sa1        |-> IOInput(cli.sa1),
                    sa1_cid    |-> cli.sa1_cid,
                    sa1_key    |-> UnwrapOr(HexOpt(cli.sa1_key).v, BLANK_KEY),
                    sa1_iv     |-> UnwrapOr(HexOpt(cli.sa1_iv).v, BLANK_IV),
                    sa1_key_iv |-> UnwrapOr(HexOpt(cli.sa1_key_iv).v, BLANK_IV),
                    sa2        |-> s2,
                    sa2_cid    |-> cli.sa2_cid,
                    sa2_key    |-> Sa2Default(s2, HexOpt(cli.sa2_key).v, BLANK_KEY),
                    sa2_iv     |-> Sa2Default(s2, HexOpt(cli.sa2_iv).v, BLANK_IV),
                    sa2_key_iv |-> Sa2Default(s2, HexOpt(cli.sa2_key_iv).v, BLANK_IV),
                    outfile    |-> IOOutput(cli.outfile)]]

\* parse_args(): Cli::parse().try_into()
ParseArgsResult(av) ==
    IF ~ClapParse(av).ok THEN [ok |-> FALSE, err |-> ClapParse(av).err]
    ELSE TryFrom(ClapParse(av).cli)

\* ------------------------------------------------------ IOType::read/write
IoErrors == {"Other"}

\* the error of IOType::read: after the map_err, the text of the error and
\* the source it came from; the `?` in the Stdin arm returns the error of
\* read_to_end from read itself, before the map_err
ReadErr(src, e) ==
    [k |-> "io", op |-> "read", kind |-> e,
     msg |-> IF src.k = "Stdin" THEN <<e>> ELSE <<e, Display(src)>>]

\* IOType::write returns the error of the sink as it is
WriteErr(snk, e) == [k |-> "io", op |-> "write", kind |-> e, msg |-> <<e>>]

\* the outcomes of src.read() when the source may hold any of `files`
ReadOutcomes(src, files) ==
    IF src.k = "Stdout"
    THEN {[ok |-> FALSE, err |-> ReadErr(src, "Unsupported")]}
    ELSE {[ok |-> FALSE, err |-> ReadErr(src, e)] : e \in IoErrors}
         \cup {[ok |-> TRUE, v |-> f] : f \in files}

\* What a sink holds after a write of `data`: the whole segments `head` of
\* data and, when part is Some, a piece of the next segment that is at
\* least part.v.min and at most part.v.max bytes long. A write can stop
\* after any number of bytes (the sink takes what it has room for, and the
\* line-buffered stdout stops after the last newline byte it is given): a
\* piece stands for every length in its range, so that the prefixes of
\* data up to a limit are all covered, each by exactly one value.
Whole(data) == [head |-> data, part |-> None]

BigMin(a, b) == IF BigLe(a, b) THEN a ELSE b

\* the byte offset at which the i-th segment of v starts
SegmentStart(v, i) == VLen(SubSeq(v, 1, i - 1))

\* the prefixes of data that stop where a segment ends (or hold nothing)
PrefixesAtEnds(data, limit) ==
    {[head |-> SubSeq(data, 1, i), part |-> None] :
       i \in {j \in 0..Len(data) : BigLe(VLen(SubSeq(data, 1, j)), limit)}}

\* the prefixes of data that stop inside a segment
PrefixesInside(data, limit) ==
    {[head |-> SubSeq(data, 1, i - 1),
      part |-> Some([t   |-> data[i].t,
                     min |-> BigOf(1),
                     max |-> BigMin(BigSub(data[i].n, BigOf(1)),
                                    BigSub(limit, SegmentStart(data, i)))])] :
       i \in {j \in 1..Len(data) : /\ BigLt(SegmentStart(data, j), limit)
                                   /\ BigLt(BigOf(1), data[j].n)}}

\* the prefixes of data of at most `limit` bytes
Prefixes(data, limit) == PrefixesAtEnds(data, limit) \cup PrefixesInside(data, limit)

\* the most bytes one write(2) call takes (0x7ffff000)
MaxWriteCount == Big(32767, 61440)

\* the buffer of the line-buffered stdout
StdoutBufferSize == 1024

\* the most bytes one stdout().write delivers: after its one write(2) the
\* line writer keeps up to a buffer of further bytes, flushed at exit
StdoutMaxCount == BigAdd(MaxWriteCount, BigOf(StdoutBufferSize))

\* stdout().write(data) is one call and its byte count is dropped: it
\* reports success whatever prefix of data it delivered
StdoutPrefixes(data) == Prefixes(data, StdoutMaxCount)

\* fs::write(path, data) creates or empties the file and then writes all of
\* data: when it fails after the file was opened, the file holds a proper
\* prefix of data
FilePartials(data) == Prefixes(data, VLen(data)) \ {Whole(data)}

\* the outcomes of snk.write(data): the result, and what the sink then
\* holds (None: the sink was not touched). stdout takes a prefix of data
\* and reports success, or fails with nothing delivered; a file takes all
\* of data, or fails unopened, or fails holding a proper prefix of data.
WriteOutcomes(snk, data) ==
    IF snk.k = "Stdin"
    THEN {[ok |-> FALSE, err |-> WriteErr(snk, "Unsupported"), v |-> None]}
    ELSE {[ok |-> FALSE, err |-> WriteErr(snk, e), v |-> None] : e \in IoErrors}
         \cup (IF snk.k = "Stdout"
               THEN {[ok |-> TRUE, v |-> Some(h)] : h \in StdoutPrefixes(data)}
               ELSE {[ok |-> TRUE, v |-> Some(Whole(data))]}
                    \cup {[ok |-> FALSE, err |-> WriteErr(snk, e), v |-> Some(h)] :
                            e \in IoErrors, h \in FilePartials(data)})

\* --------------------------------------------------- external primitives
\* soft_aes aes_enc_cbc(data, key, iv, None): without a padding scheme the
\* data must be whole 16-byte blocks; the ciphertext has the data's length
AesEncCbc(data, key, iv) ==
    IF BigMod(VLen(data), 16) # 0 THEN None
    ELSE IF data = <<>> THEN Some(<<>>)
    ELSE Some(<<[t |-> [k |-> "aes_cbc", key |-> key, iv |-> iv, data |-> data],
                 n |-> VLen(data)]>>)

\* DeflateEncoder::new(vec![], Compression::fast()), write_all, finish: the
\* compressed stream of `data`, n bytes long
Deflate(data, n) == <<[t |-> [k |-> "deflate", data |-> data], n |-> n]>>

\* CmdHead::new_unsigned(key, iv, app_key, key_iv, size, cid)
CmdHeadNew(key, iv, app_key, key_iv, size, cid) ==
    [k |-> "cmd", key |-> key, iv |-> iv, app_key |-> app_key,
     key_iv |-> key_iv, size |-> size, cid |-> cid]

\* CmdHead::to_buf: the encoded header, 0x1AC bytes
CmdHeadLen == BigOf(428)

ToBuf(cmd) == <<[t |-> cmd, n |-> CmdHeadLen]>>

\* ------------------------------------------------------------ the inputs
\* the lengths from n up to MaxDelta above it
From(n) == {BigAdd(n, BigOf(d)) : d \in 0..MaxDelta}

SkFiles == {Fill(170, n) : n \in {BigOf(100)} \cup From(SK_SIZE)}
           \cup {Extend(Fill(170, BigOf(1)), Fill(0, BigOf(99)))}

Sa1Files == {Fill(170, n) :
               n \in {Zero, BigOf(10), BigOf(BLOCK_SIZE), BigOf(BLOCK_SIZE + 1)}
                     \cup From(U32_MAX)}

\* a payload of n random bytes, which the encoder cannot shorten: the
\* compressed stream is `grow` bytes longer than the payload, and how many
\* that is depends on the bytes
Incompressible(n, grow) == <<[t |-> [k |-> "random", grow |-> grow], n |-> n]>>

\* the bytes a stored DEFLATE block has before its data: what a payload of
\* up to BLOCK_SIZE random bytes grows by
StoredBlockHead == 5

\* what two payloads of 2^32 - 1 random bytes grow by (their streams are
\* 0x1003CB580 and 0x1003CB5DA bytes long)
LargeGrowths == {BigSub(Big(65596, 46464), U32_MAX), BigSub(Big(65596, 46554), U32_MAX)}

Sa2Files == {Fill(170, BigOf(10)),
             Fill(170, BigOf(BLOCK_SIZE)),
             Fill(170, U32_MAX),
             Incompressible(BigOf(BLOCK_SIZE), BigOf(StoredBlockHead))}
            \cup {Incompressible(U32_MAX, g) : g \in LargeGrowths}
            \cup {Incompressible(n, BigOf(StoredBlockHead)) :
                    n \in From(BigOf(BLOCK_SIZE - StoredBlockHead))}

\* the length of the compressed stream that DeflateEncoder with
\* Compression::fast() gives for the payloads of Sa2Files: runs of one byte
\* shrink to a few bytes, random bytes grow
DeflatedLens(data) ==
    IF data = Fill(170, BigOf(10)) THEN {BigOf(4)}
    ELSE IF data = Fill(170, BigOf(BLOCK_SIZE)) THEN {BigOf(92)}
    ELSE IF data = Fill(170, U32_MAX) THEN {BigOf(19541723)}
    ELSE {BigAdd(VLen(data), data[1].t.grow)}

Virage2Files == {Fill(170, BigOf(256))}

BootromFiles == {Fill(170, BigOf(8192))}

\* certcrl.bin: short enough for the header block, or too long for it
CertsFiles == {<<[t |-> [k |-> "certcrl.bin"], n |-> n]>> :
                 n \in {BigOf(BLOCK_SIZE \div 2), BigOf(BLOCK_SIZE)}}

\* the command lines
HexGood == [i \in 1..32 |-> IF i = 32 THEN "1" ELSE "0"]

HexBadChar == [i \in 1..32 |-> "g"]

HexOdd == <<"a", "b", "c">>

HexTexts == {HexGood, HexBadChar, HexOdd}

CidHex == <<"0", "x", "1", "2", "3", "4">>

CidDec == <<"7">>

CidPlus == <<"+", "7">>

CidOverflow == <<"0", "x", "1", "0", "0", "0", "0", "0", "0", "0", "0">>

CidBadDigit == <<"1", "2", "g">>

PosChoices ==
    LET base == {<<"virage2.bin", "bootrom.bin", "sk.bin", "sa1.bin", c>> :
                   c \in {CidHex, CidOverflow}}
        tail == {<<>>, <<"sa2.bin">>}
                \cup {<<"sa2.bin", c>> : c \in {CidPlus, CidBadDigit}}
                \cup {<<"sa2.bin", c, o>> : c \in {CidPlus, CidBadDigit},
                                            o \in {"-", "image.sksa"}}
    IN {b \o t : b \in base, t \in tail}
       \cup {<<"virage2.bin", "bootrom.bin", "sk.bin", "sa1.bin">>,
             <<"virage2.bin", "bootrom.bin", "-", "sa1.bin", CidDec>>,
             <<"virage2.bin", "bootrom.bin", "sk.bin", "sa1.bin", CidHex,
               "sa2.bin", CidDec, "image.sksa", "extra">>}

\* the texts tried with option o
OptTexts(o) ==
    IF o \in {"sa1_key", "sa1_iv", "sa1_key_iv"}
    THEN {HexGood, HexBadChar} ELSE {HexGood, HexOdd}

OptChoices ==
    {o \in [OptNames -> {None} \cup {Some(t) : t \in HexTexts}] :
        /\ \A n \in OptNames : o[n].some => o[n].v \in OptTexts(n)
        /\ Cardinality({n \in OptNames : o[n].some}) <= MaxOpts}

\* ------------------------------------------------------------------ Init
Init ==
    /\ argv \in [pos : PosChoices, opts : OptChoices]
    /\ pc = "parse_args"
    /\ args = None
    /\ result = [k |-> "running"]
    /\ io = <<>>
    /\ steps = <<>>
    /\ raw = [sk |-> None, sa1 |-> None, sa2 |-> None, deflated |-> None]
    /\ keys = [boot_app_key |-> None, sk |-> None]
    /\ sk = <<>>
    /\ sa1 = <<>>
    /\ sa2 = None
    /\ sa1_cmd = <<>>
    /\ sa2_cmd = None
    /\ certs = None
    /\ outfile = <<>>
    /\ dest = None

locals == <<sk, sa1, sa2, sa1_cmd, sa2_cmd, certs, outfile>>

\* the process ends with r
ExitContinue(r) ==
    /\ pc' = "write"
    /\ result' = r
    /\ steps' = steps

Exit(r) ==
    /\ pc' = "exit"
    /\ result' = r
    /\ steps' = IF r.k = "ok" THEN Append(steps, pc) ELSE steps

\* the step at pc is done; on to p
Goto(p) == pc' = p /\ steps' = Append(steps, pc) /\ UNCHANGED result

ReadOp(src) == [op |-> "read", id |-> Display(src)]

WriteOp(snk) == [op |-> "write", id |-> Display(snk)]

\* ------------------------------------------------------------------ main
\* main: let args = makesksa::args::parse_args()?;
ParseArgs ==
    /\ pc = "parse_args"
    /\ IF ParseArgsResult(argv).ok
       THEN args' = Some(ParseArgsResult(argv).args) /\ Goto("load_virage2")
       ELSE args' = None /\ Exit([k |-> "usage", err |-> ParseArgsResult(argv).err])
    /\ UNCHANGED <<argv, io, raw, keys, dest>>
    /\ UNCHANGED locals

\* ----------------------------------------------------------------- build
\* lines 49-50: args.virage2.read()?; Virage2::read_from_buf(&virage2)?
LoadVirage2 ==
    /\ pc = "load_virage2"
    /\ io' = Append(io, ReadOp(args.v.virage2))
    /\ \E r \in ReadOutcomes(args.v.virage2, Virage2Files) :
         IF ~r.ok THEN Exit(r.err) /\ UNCHANGED keys
         ELSE \E parsed \in BOOLEAN :
                IF parsed
                THEN /\ keys' = [keys EXCEPT !.boot_app_key =
                                   Some([k |-> "boot_app_key", of |-> r.v])]
                     /\ Goto("load_bootrom")
                ELSE Exit([k |-> "virage2"]) /\ UNCHANGED keys
    /\ UNCHANGED <<argv, args, raw, dest>>
    /\ UNCHANGED locals

\* lines 52-54: args.bootrom.read()?; bootrom_keys(&bootrom)?
LoadBootrom ==
    /\ pc = "load_bootrom"
    /\ io' = Append(io, ReadOp(args.v.bootrom))
    /\ \E r \in ReadOutcomes(args.v.bootrom, BootromFiles) :
         IF ~r.ok THEN Exit(r.err) /\ UNCHANGED keys
         ELSE \E derived \in BOOLEAN :
                IF derived
                THEN /\ keys' = [keys EXCEPT !.sk =
                                   Some([key |-> [k |-> "sk_key", of |-> r.v],
                                         iv  |-> [k |-> "sk_iv", of |-> r.v]])]
                     /\ Goto("read_sk")
                ELSE Exit([k |-> "bootrom"]) /\ UNCHANGED keys
    /\ UNCHANGED <<argv, args, raw, dest>>
    /\ UNCHANGED locals

TooLong(c, got, max) == [k |-> "ComponentTooLong", comp |-> c, got |-> got, max |-> max]

\* line 56: let mut sk = args.sk.read()?
ReadSk ==
    /\ pc = "read_sk"
    /\ io' = Append(io, ReadOp(args.v.sk))
    /\ \E r \in ReadOutcomes(args.v.sk, SkFiles) :
         IF ~r.ok THEN Exit(r.err) /\ UNCHANGED <<sk, raw>>
         ELSE sk' = r.v /\ raw' = [raw EXCEPT !.sk = Some(r.v)] /\ Goto("pad_sk")
    /\ UNCHANGED <<argv, args, keys, dest, sa1, sa2, sa1_cmd, sa2_cmd, certs, outfile>>

\* lines 58-64: the SK length check and sk.resize(SK_SIZE, 0)
SkTooLongGe(v) == BigLe(SK_SIZE, VLen(v))

SkTooLong(v) == BigLt(SK_SIZE, VLen(v))

PadSkVec(v) == IF BigLt(VLen(v), SK_SIZE) THEN Resize(v, SK_SIZE, 0) ELSE v

PadSk ==
    /\ pc = "pad_sk"
    /\ IF SkTooLong(sk)
       THEN Exit(TooLong("SK", VLen(sk), SK_SIZE)) /\ UNCHANGED sk
       ELSE sk' = PadSkVec(sk) /\ Goto("read_sa1")
    /\ UNCHANGED <<argv, args, io, raw, keys, dest, sa1, sa2, sa1_cmd, sa2_cmd,
                   certs, outfile>>

\* line 66: let mut sa1 = args.sa1.read()?
ReadSa1 ==
    /\ pc = "read_sa1"
    /\ io' = Append(io, ReadOp(args.v.sa1))
    /\ \E r \in ReadOutcomes(args.v.sa1, Sa1Files) :
         IF ~r.ok THEN Exit(r.err) /\ UNCHANGED <<sa1, raw>>
         ELSE sa1' = r.v /\ raw' = [raw EXCEPT !.sa1 = Some(r.v)] /\ Goto("pad_sa1")
    /\ UNCHANGED <<argv, args, keys, dest, sk, sa2, sa1_cmd, sa2_cmd, certs, outfile>>

\* lines 68/85: len > u32::MAX
SaTooLong(v) == BigLt(U32_MAX, VLen(v))

\* lines 74/94: v.resize(v.len().next_multiple_of(BLOCK_SIZE), 0)
PadSaVec(v) == Resize(v, NextMultipleOf(VLen(v), BLOCK_SIZE), 0)

\* lines 76-98: args.sa2.map(...): the closure runs only for a supplied SA2
AfterSa1NoSa2 == "enc_sk"

AfterSa1 == IF args.v.sa2.some THEN "read_sa2" ELSE "enc_sk"

\* lines 68-74
PadSa1 ==
    /\ pc = "pad_sa1"
    /\ IF SaTooLong(sa1)
       THEN Exit(TooLong("SA1", VLen(sa1), U32_MAX)) /\ UNCHANGED sa1
       ELSE sa1' = PadSaVec(sa1)
            /\ Goto(AfterSa1)
    /\ UNCHANGED <<argv, args, io, raw, keys, dest, sk, sa2, sa1_cmd, sa2_cmd,
                   certs, outfile>>

\* line 79 (inside args.sa2.map): let sa2 = f.read()?
ReadSa2 ==
    /\ pc = "read_sa2"
    /\ io' = Append(io, ReadOp(args.v.sa2.v))
    /\ \E r \in ReadOutcomes(args.v.sa2.v, Sa2Files) :
         IF ~r.ok THEN Exit(r.err) /\ UNCHANGED <<sa2, raw>>
         ELSE sa2' = Some(r.v) /\ raw' = [raw EXCEPT !.sa2 = Some(r.v)]
              /\ Goto("deflate_sa2")
    /\ UNCHANGED <<argv, args, keys, dest, sk, sa1, sa1_cmd, sa2_cmd, certs, outfile>>

\* lines 81-83: the DEFLATE encoder; it returns a Result, and on success
\* a stream whose length the build does not choose
DeflateSa2 ==
    /\ pc = "deflate_sa2"
    /\ \E done \in BOOLEAN :
         IF done
         THEN \E n \in DeflatedLens(sa2.v) :
                /\ sa2' = Some(Deflate(sa2.v, n))
                /\ raw' = [raw EXCEPT !.deflated = Some(Deflate(sa2.v, n))]
                /\ Goto("pad_sa2")
         ELSE Exit([k |-> "deflate"]) /\ UNCHANGED <<sa2, raw>>
    /\ UNCHANGED <<argv, args, io, keys, dest, sk, sa1, sa1_cmd, sa2_cmd,
                   certs, outfile>>

\* lines 85-96
PadSa2 ==
    /\ pc = "pad_sa2"
    /\ IF SaTooLong(sa2.v)
       THEN Exit(TooLong("SA2", VLen(sa2.v), U32_MAX)) /\ UNCHANGED sa2
       ELSE sa2' = Some(PadSaVec(sa2.v)) /\ Goto("enc_sk")
    /\ UNCHANGED <<argv, args, io, raw, keys, dest, sk, sa1, sa1_cmd, sa2_cmd,
                   certs, outfile>>

Panic(what) == [k |-> "panic", what |-> what]

\* line 100: aes_enc_cbc(&sk, &sk_key, &sk_iv, None).expect("encryption failed")
EncSk ==
    /\ pc = "enc_sk"
    /\ LET c == AesEncCbc(sk, keys.sk.v.key, keys.sk.v.iv) IN
         IF c.some THEN sk' = c.v /\ Goto("sa1_cmd")
         ELSE Exit(Panic("encryption failed")) /\ UNCHANGED sk
    /\ UNCHANGED <<argv, args, io, raw, keys, dest, sa1, sa2, sa1_cmd, sa2_cmd,
                   certs, outfile>>

\* lines 107/125: the payload length handed to the header, `len as u32`
HeaderSize(v) == AsU32(VLen(v))

\* lines 111-113/129-131: to_buf, extend(DUMMY_CERTS_CRLS), resize(BLOCK_SIZE, 0)
HeaderBlock(cmd, filler) == Resize(Extend(ToBuf(cmd), filler), BigOf(BLOCK_SIZE), 0)

\* lines 102-109
Sa1CmdHead ==
    CmdHeadNew(args.v.sa1_key, args.v.sa1_iv, keys.boot_app_key.v,
               args.v.sa1_key_iv, HeaderSize(sa1), args.v.sa1_cid)

\* lines 102-113
Sa1Cmd ==
    /\ pc = "sa1_cmd"
    /\ \E encoded \in BOOLEAN :
         IF encoded
         THEN \E c \in (IF certs.some THEN {certs.v} ELSE CertsFiles) :
                /\ certs' = Some(c)
                /\ sa1_cmd' = HeaderBlock(Sa1CmdHead, c)
                /\ Goto("enc_sa1")
         ELSE Exit([k |-> "cmd"]) /\ UNCHANGED <<sa1_cmd, certs>>
    /\ UNCHANGED <<argv, args, io, raw, keys, dest, sk, sa1, sa2, sa2_cmd, outfile>>

\* line 115
EncSa1 ==
    /\ pc = "enc_sa1"
    /\ LET c == AesEncCbc(sa1, args.v.sa1_key, args.v.sa1_iv) IN
         IF c.some THEN sa1' = c.v /\ Goto("sa2_cmd")
         ELSE Exit(Panic("encryption failed")) /\ UNCHANGED sa1
    /\ UNCHANGED <<argv, args, io, raw, keys, dest, sk, sa2, sa1_cmd, sa2_cmd,
                   certs, outfile>>

\* lines 120-127; the four unwrap calls need their fields present
Sa2CmdUnwraps ==
    /\ args.v.sa2_key.some
    /\ args.v.sa2_iv.some
    /\ args.v.sa2_key_iv.some
    /\ args.v.sa2_cid.some

Sa2CmdHead ==
    CmdHeadNew(args.v.sa2_key.v, args.v.sa2_iv.v, keys.boot_app_key.v,
               args.v.sa2_key_iv.v, HeaderSize(sa2.v), args.v.sa2_cid.v)

\* lines 117-135: sa2.as_ref().map(...).transpose()?
Sa2Cmd ==
    /\ pc = "sa2_cmd"
    /\ IF ~sa2.some
       THEN sa2_cmd' = None /\ Goto("enc_sa2") /\ UNCHANGED certs
       ELSE IF ~Sa2CmdUnwraps
       THEN Exit(Panic("unwrap on None")) /\ UNCHANGED <<sa2_cmd, certs>>
       ELSE \E encoded \in BOOLEAN :
              IF encoded
              THEN \E c \in (IF certs.some THEN {certs.v} ELSE CertsFiles) :
                     /\ certs' = Some(c)
                     /\ sa2_cmd' = Some(HeaderBlock(Sa2CmdHead, c))
                     /\ Goto("enc_sa2")
              ELSE Exit([k |-> "cmd"]) /\ UNCHANGED <<sa2_cmd, certs>>
    /\ UNCHANGED <<argv, args, io, raw, keys, dest, sk, sa1, sa2, sa1_cmd, outfile>>

\* lines 137-140: sa2.map(|sa| aes_enc_cbc(...).expect("encryption failed"))
EncSa2 ==
    /\ pc = "enc_sa2"
    /\ IF ~sa2.some
       THEN Goto("assemble") /\ UNCHANGED sa2
       ELSE IF ~(args.v.sa2_key.some /\ args.v.sa2_iv.some)
       THEN Exit(Panic("unwrap on None")) /\ UNCHANGED sa2
       ELSE LET c == AesEncCbc(sa2.v, args.v.sa2_key.v, args.v.sa2_iv.v) IN
              IF c.some THEN sa2' = Some(c.v) /\ Goto("assemble")
              ELSE Exit(Panic("encryption failed")) /\ UNCHANGED sa2
    /\ UNCHANGED <<argv, args, io, raw, keys, dest, sk, sa1, sa1_cmd, sa2_cmd,
                   certs, outfile>>

\* lines 142-150
Assembled(k, c1, a1, a2, c2) ==
    IF a2.some THEN Extend(Extend(Extend(Extend(k, c1), a1), c2.v), a2.v)
    ELSE Extend(Extend(k, c1), a1)

Assemble ==
    /\ pc = "assemble"
    /\ IF sa2.some /\ ~sa2_cmd.some
       THEN Exit(Panic("unwrap on None")) /\ UNCHANGED outfile
       ELSE outfile' = Assembled(sk, sa1_cmd, sa1, sa2, sa2_cmd) /\ Goto("write")
    /\ UNCHANGED <<argv, args, io, raw, keys, dest, sk, sa1, sa2, sa1_cmd, sa2_cmd,
                   certs>>

\* lines 152-154: args.outfile.write(outfile)?; Ok(())
WriteOut ==
    /\ pc = "write"
    /\ io' = Append(io, WriteOp(args.v.outfile))
    /\ \E r \in WriteOutcomes(args.v.outfile, outfile) :
         /\ dest' = IF r.v.some THEN r.v ELSE dest
         /\ IF r.ok THEN Exit([k |-> "ok"]) ELSE Exit(r.err)
    /\ UNCHANGED <<argv, args, raw, keys>>
    /\ UNCHANGED locals

Next ==
    \/ ParseArgs
    \/ LoadVirage2
    \/ LoadBootrom
    \/ ReadSk
    \/ PadSk
    \/ ReadSa1
    \/ PadSa1
    \/ ReadSa2
    \/ DeflateSa2
    \/ PadSa2
    \/ EncSk
    \/ Sa1Cmd
    \/ EncSa1
    \/ Sa2Cmd
    \/ EncSa2
    \/ Assemble
    \/ WriteOut

Spec == Init /\ [][Next]_vars

\* ------------------------------------------------------------ properties
Done(step) == \E i \in 1..Len(steps) : steps[i] = step

\* the plaintext of an encrypted component
PlainOf(v) == IF v = <<>> THEN <<>> ELSE v[1].t.data

SkPlain == IF Done("enc_sk") THEN PlainOf(sk) ELSE sk

Sa1Plain == IF Done("enc_sa1") THEN PlainOf(sa1) ELSE sa1

Sa2Plain == IF Done("enc_sa2") THEN PlainOf(sa2.v) ELSE sa2.v

\* p is o followed by zero bytes only
ZeroExtends(o, p) == IsPrefix(o, p) /\ AllZero(SkipBytes(p, VLen(o)))

\* C1: an SK payload of at most 64 KiB reaches the encryption exactly 64 KiB
\* long, as the payload followed by zero bytes only; a longer one ends the
\* build with ComponentTooLong(SK, its length, 64 KiB), untruncated, and no
\* shorter one does.
C1_SkPadding ==
    /\ Done("pad_sk") =>
         /\ BigLe(VLen(raw.sk.v), SK_SIZE)
         /\ VLen(SkPlain) = Big(1, 0)
         /\ ZeroExtends(raw.sk.v, SkPlain)
    /\ Done("enc_sk") =>
         /\ Len(sk) = 1
         /\ sk[1].t.k = "aes_cbc"
         /\ sk[1].t.key = keys.sk.v.key /\ sk[1].t.iv = keys.sk.v.iv
         /\ sk[1].n = Big(1, 0)
    /\ (raw.sk.some /\ BigLt(Big(1, 0), VLen(raw.sk.v))) =>
         /\ ~Done("pad_sk")
         /\ sk = raw.sk.v
         /\ pc \in {"pad_sk", "exit"}
         /\ pc = "exit" => result = TooLong("SK", VLen(raw.sk.v), Big(1, 0))
    /\ (result.k = "ComponentTooLong" /\ result.comp = "SK") =>
         BigLt(Big(1, 0), VLen(raw.sk.v))

C1_Witness ==
    /\ Done("enc_sk")
    /\ VLen(raw.sk.v) = BigOf(100)
    /\ SkPlain = <<[t |-> ByteStream(170), n |-> BigOf(100)],
                   [t |-> ByteStream(0), n |-> BigOf(65436)]>>

\* p is o zero-extended to the smallest multiple of BLOCK_SIZE >= its length
BlockPadded(o, p) ==
    /\ BigMod(VLen(p), BLOCK_SIZE) = 0
    /\ BigLe(VLen(o), VLen(p))
    /\ BigLt(BigSub(VLen(p), VLen(o)), BigOf(BLOCK_SIZE))
    /\ ZeroExtends(o, p)
    /\ BigMod(VLen(o), BLOCK_SIZE) = 0 => p = o

\* C2: an accepted SA1 payload, and an accepted SA2 payload in its compressed
\* form, is zero-extended to the smallest multiple of BLOCK_SIZE that is >=
\* its length, and left unchanged when its length already is one.
C2_BlockPadding ==
    /\ Done("pad_sa1") => BlockPadded(raw.sa1.v, Sa1Plain)
    /\ Done("pad_sa2") => BlockPadded(raw.deflated.v, Sa2Plain)

C2_Witness ==
    /\ Done("pad_sa1") /\ Done("pad_sa2")
    /\ VLen(raw.sa1.v) = BigOf(BLOCK_SIZE + 1)
    /\ VLen(Sa1Plain) = BigOf(2 * BLOCK_SIZE)
    /\ VLen(raw.deflated.v) = BigOf(BLOCK_SIZE)
    /\ Sa2Plain = raw.deflated.v

IsAes(v, key, iv) ==
    /\ Len(v) = 1
    /\ v[1].t.k = "aes_cbc"
    /\ v[1].t.key = key /\ v[1].t.iv = iv

IsHeader(v, cid) ==
    /\ VLen(v) = BigOf(BLOCK_SIZE)
    /\ v[1].t.k = "cmd"
    /\ v[1].t.cid = cid

\* C3: on every successful build the destination is given, and then holds,
\* exactly encrypted SK, SA1 header, encrypted SA1 and, only for a supplied
\* SA2, SA2 header and encrypted SA2, in this order; without SA2 nothing
\* follows the encrypted SA1.
C3_OutputLayout ==
    /\ Done("assemble") =>
         /\ outfile = sk \o sa1_cmd \o sa1
                      \o (IF args.v.sa2.some THEN sa2_cmd.v \o sa2.v ELSE <<>>)
         /\ IsAes(sk, keys.sk.v.key, keys.sk.v.iv)
         /\ IsHeader(sa1_cmd, args.v.sa1_cid)
         /\ sa1 # <<>> => IsAes(sa1, args.v.sa1_key, args.v.sa1_iv)
         /\ args.v.sa2.some =>
              /\ IsHeader(sa2_cmd.v, args.v.sa2_cid.v)
              /\ IsAes(sa2.v, args.v.sa2_key.v, args.v.sa2_iv.v)
         /\ ~args.v.sa2.some =>
              /\ sa2 = None /\ sa2_cmd = None
              /\ VLen(outfile) = BigAdd(BigAdd(Big(1, 0), BigOf(BLOCK_SIZE)), VLen(sa1))
    /\ Done("write") => dest = Some(Whole(outfile))

WriteOps == {i \in 1..Len(io) : io[i].op = "write"}

\* the steps every build performs before it writes
StagesBeforeWrite ==
    {"parse_args", "load_virage2", "load_bootrom", "read_sk", "pad_sk", "read_sa1",
     "pad_sa1", "enc_sk", "sa1_cmd", "enc_sa1", "sa2_cmd", "enc_sa2", "assemble"}
    \cup (IF args.some /\ args.v.sa2.some
          THEN {"read_sa2", "deflate_sa2", "pad_sa2"} ELSE {})

\* C4: the destination is written at most once, as the last action of the
\* process and only after every other stage has succeeded; a build that
\* fails at any earlier stage leaves the destination unwritten.
C4_WriteIsLast ==
    /\ Cardinality(WriteOps) <= 1
    /\ result.k # "running" => pc = "exit"
    /\ WriteOps # {} =>
         /\ WriteOps = {Len(io)}
         /\ pc = "exit"
         /\ \A st \in StagesBeforeWrite : Done(st)
    /\ dest.some =>
         /\ WriteOps # {}
         /\ result.k = "ok" \/ (result.k = "io" /\ result.op = "write")
    /\ (pc = "exit" /\ result.k # "ok" /\ ~(result.k = "io" /\ result.op = "write"))
         => (dest = None /\ WriteOps = {})

C4_Witness ==
    /\ pc = "exit"
    /\ result.k = "ComponentTooLong" /\ result.comp = "SA2"
    /\ Done("pad_sa1")
    /\ dest = None /\ WriteOps = {}

\* C5: the length given to the header encoder is the padded length of the
\* payload, the number of bytes of the encrypted section after the header.
C5_HeaderLength ==
    /\ Done("sa1_cmd") => sa1_cmd[1].t.size = VLen(Sa1Plain)
    /\ (Done("sa2_cmd") /\ sa2.some) => sa2_cmd.v[1].t.size = VLen(Sa2Plain)

\* C6: a command line with an SA2-only field (--sa2-key, --sa2-iv,
\* --sa2-key-iv) and no SA2 payload is rejected by the argument parsing:
\* build is never entered and nothing is read. (The SA2 identifier is the
\* positional word after the SA2 payload: no command line gives it alone.)
C6_Sa2OnlyFieldsRejected ==
    (/\ Len(argv.pos) < 6
     /\ Given(argv, "sa2_key") \/ Given(argv, "sa2_iv") \/ Given(argv, "sa2_key_iv"))
    => /\ args = None
       /\ io = <<>>
       /\ pc \in {"parse_args", "exit"}

\* C7: a command line with an SA2 payload and no SA2 identifier is rejected
\* by the argument parsing: build never starts, no source is read and the
\* destination is not touched.
C7_Sa2NeedsCid ==
    Len(argv.pos) = 6 =>
      /\ args = None
      /\ io = <<>>
      /\ dest = None
      /\ pc \in {"parse_args", "exit"}
      /\ pc = "exit" => result.k = "usage"

C7_Witness ==
    /\ Len(argv.pos) = 6
    /\ pc = "exit"
    /\ result = [k |-> "usage", err |-> "MissingRequiredArgument"]

\* C8: every I/O error of a build, from a read or from the write, carries
\* the identity of the source or sink it came from.
C8_IoErrorNamesSource ==
    result.k = "io" =>
      \E i \in 1..Len(result.msg) : result.msg[i] = io[Len(io)].id

AllRead ==
    /\ raw.sk.some
    /\ raw.sa1.some
    /\ args.v.sa2.some => raw.sa2.some

ReadOps == {i \in 1..Len(io) : io[i].op = "read"}

\* C9 as stated: once any component has been padded, compressed or
\* encrypted, every component has been read.
C9_ReadsBeforeTransforms ==
    (\/ Done("pad_sk") /\ BigLt(VLen(raw.sk.v), Big(1, 0))
     \/ Done("pad_sa1") \/ Done("deflate_sa2") \/ Done("pad_sa2")
     \/ Done("enc_sk") \/ Done("enc_sa1") \/ Done("enc_sa2"))
    => AllRead

\* C9 amended: every component read completes before any encryption
\* begins, and a component is padded (SA2: compressed, then padded) only
\* after it has been read itself; the padding is interleaved with the
\* reads: SK is padded before SA1 is read, SA1 before SA2 is read.
C9_ReadsBeforeEncryption ==
    /\ (pc = "enc_sk" \/ Done("enc_sk") \/ Done("enc_sa1") \/ Done("enc_sa2")) =>
         /\ AllRead
         /\ Cardinality(ReadOps) = (IF args.v.sa2.some THEN 5 ELSE 4)
    /\ Done("pad_sk") => raw.sk.some
    /\ Done("pad_sa1") => raw.sa1.some
    /\ Done("deflate_sa2") => raw.sa2.some
    /\ Done("pad_sa2") => Done("deflate_sa2")
    /\ pc = "read_sa1" => (Done("pad_sk") /\ VLen(sk) = Big(1, 0) /\ ~raw.sa1.some)
    /\ pc = "read_sa2" =>
         (Done("pad_sa1") /\ BigMod(VLen(sa1), BLOCK_SIZE) = 0 /\ ~raw.sa2.some)

C9_Witness ==
    /\ pc = "read_sa1"
    /\ BigLt(VLen(raw.sk.v), Big(1, 0))
    /\ VLen(sk) = Big(1, 0)
    /\ ~raw.sa1.some

Zeros16 == <<0, 0, 0, 0, 0, 0, 0, 0, 0, 0, 0, 0, 0, 0, 0, 0>>

\* C10: in every Args that parse_args produces, a present SA2 comes with
\* its identifier, key, IV and header-key IV, the latter three all-zero
\* when not given; no unwrap of build finds its field absent, and without
\* SA2 build builds no SA2 header and encrypts no SA2.
C10_Sa2FieldsPresent ==
    /\ (args.some /\ args.v.sa2.some) =>
         /\ args.v.sa2_cid.some
         /\ args.v.sa2_key.some
         /\ args.v.sa2_iv.some
         /\ args.v.sa2_key_iv.some
         /\ ~Given(argv, "sa2_key") => args.v.sa2_key.v = Zeros16
         /\ ~Given(argv, "sa2_iv") => args.v.sa2_iv.v = Zeros16
         /\ ~Given(argv, "sa2_key_iv") => args.v.sa2_key_iv.v = Zeros16
    /\ ~(result.k = "panic" /\ result.what = "unwrap on None")
    /\ (args.some /\ ~args.v.sa2.some) => (sa2 = None /\ sa2_cmd = None)

C10_Witness ==
    /\ Done("enc_sa2")
    /\ args.v.sa2.some
    /\ \A o \in OptNames : ~Given(argv, o)
    /\ sa2_cmd.v[1].t.key = Zeros16
    /\ sa2_cmd.v[1].t.key_iv = Zeros16
====
